---- MODULE Spec2Model ----
(***************************************************************************)
(* Model of advanced-vector/vector.h: RawMemory<T> (an untyped block of    *)
(* capacity slots) and Vector<T> (a RawMemory plus the count of live       *)
(* elements).  The heap is a finite pool of blocks; every slot of a block  *)
(* is either raw memory or holds a constructed T.  An operation of Vector  *)
(* is one action; the element operation that throws (if any) is chosen by  *)
(* the input `fuel`: the number of fallible steps that succeed first.      *)
(***************************************************************************)
EXTENDS Integers, Sequences, FiniteSets, TLC

VARIABLES T, heap, vec, last, pushed, reserved

vars == <<T, heap, vec, last, pushed, reserved>>

\* ---------------------------------------------------------------- bounds
MaxCap == 3      \* largest capacity in the runs of one vector with every operation
GrowCap == 4     \* largest capacity in the runs of one vector that grows
PairCap == 2     \* largest capacity in the runs of two vectors
MaxVal == 1      \* element values passed by the caller are 0..MaxVal
NumBlocks == 3   \* blocks the allocator can hand out at the same time

\* ---------------------------------------------------------- value domain
Raw == -2        \* a slot of raw memory: no object lives there
MovedFrom == -1  \* the state a T is left in after it was moved from
DefaultVal == 0  \* the value of T()
nullptr == 0

Values == 0..MaxVal
VecIds == {1, 2}
Blocks == 1..NumBlocks

\* T's traits, as vector.h asks for them (std::is_nothrow_move_constructible_v,
\* std::is_copy_constructible_v).
ElemTypes ==
    {[nothrow_move |-> TRUE, copyable |-> TRUE],
     [nothrow_move |-> FALSE, copyable |-> TRUE],
     [nothrow_move |-> FALSE, copyable |-> FALSE]}

Min(a, b) == IF a < b THEN a ELSE b
Max(a, b) == IF a > b THEN a ELSE b

\* ------------------------------------------------------- execution state
\* The state of one call: the heap, the fuel left, whether an exception is
\* in flight, and what the call did so far.
Machine(f) ==
    [h |-> heap, fuel |-> f, ex |-> FALSE, stage |-> "", allocs |-> 0, dtors |-> 0,
     rawDtor |-> 0, oob |-> 0, freedCtor |-> 0, ctorOver |-> 0, badFree |-> 0, rawUse |-> 0]

\* The step of the call an exception came from, kept for the record of the call.
At(m, stage) == IF m.ex /\ m.stage = "" THEN [m EXCEPT !.stage = stage] ELSE m

\* A step that may throw: it throws when the fuel is used up.
Tick(m, fallible) ==
    IF ~fallible THEN m
    ELSE IF m.fuel = 0 THEN [m EXCEPT !.ex = TRUE]
    ELSE [m EXCEPT !.fuel = @ - 1]

MoveThrows == ~T.nothrow_move

InBlock(m, b, i) ==
    /\ b # nullptr
    /\ m.h[b].alloc
    /\ i >= 0
    /\ i < Len(m.h[b].slots)

Get(m, b, i) == IF InBlock(m, b, i) THEN m.h[b].slots[i + 1] ELSE Raw

Put(m, b, i, x) ==
    IF InBlock(m, b, i) THEN [m EXCEPT !.h[b].slots[i + 1] = x]
    ELSE [m EXCEPT !.oob = @ + 1]

\* Reading or assigning a slot as a T although no T lives there.
Use(m, b, i) == IF Get(m, b, i) = Raw THEN [m EXCEPT !.rawUse = @ + 1] ELSE m

\* new (p) T(...): the slot holds the new object whatever it held before.
Construct(m, b, i, x) ==
    Put([m EXCEPT !.ctorOver = @ + (IF Get(m, b, i) # Raw THEN 1 ELSE 0)], b, i, x)

\* new (p) T(args...) and T(): the constructor may throw.
New(m, b, i, x) ==
    LET t == Tick(m, TRUE)
    IN  IF t.ex THEN t ELSE Construct(t, b, i, x)

\* new (p) T(const T&)
CopyConstruct(m, fb, fi, tb, ti) ==
    LET t == Tick(m, TRUE)
    IN  IF t.ex THEN t ELSE Construct(Use(t, fb, fi), tb, ti, Get(t, fb, fi))

\* What a move leaves behind in its source.
LeaveMovedFrom(m, b, i) == Put(m, b, i, MovedFrom)

\* new (p) T(T&&)
MoveConstruct(m, fb, fi, tb, ti) ==
    LET t == Tick(m, MoveThrows)
    IN  IF t.ex THEN t
        ELSE LeaveMovedFrom(Construct(Use(t, fb, fi), tb, ti, Get(t, fb, fi)), fb, fi)

\* *to = *from
CopyAssign(m, fb, fi, tb, ti) ==
    LET t == Tick(m, TRUE)
    IN  IF t.ex THEN t
        ELSE Put(Use(Use(t, fb, fi), tb, ti), tb, ti, Get(t, fb, fi))

\* *to = std::move(*from)
MoveAssign(m, fb, fi, tb, ti) ==
    LET t == Tick(m, MoveThrows)
    IN  IF t.ex THEN t
        ELSE LeaveMovedFrom(Put(Use(Use(t, fb, fi), tb, ti), tb, ti, Get(t, fb, fi)), fb, fi)

\* p->~T(): a destructor run on a slot that holds no object is counted.
Destroy(m, b, i) ==
    IF Get(m, b, i) = Raw
    THEN [m EXCEPT !.rawDtor = @ + 1,
                   !.oob = @ + (IF InBlock(m, b, i) THEN 0 ELSE 1)]
    ELSE Put([m EXCEPT !.dtors = @ + 1], b, i, Raw)

RECURSIVE destroy_n(_, _, _, _)
destroy_n(m, b, i, n) ==
    IF n <= 0 THEN m ELSE destroy_n(Destroy(m, b, i), b, i + 1, n - 1)

RECURSIVE UninitCopyLoop(_, _, _, _, _, _, _)
UninitCopyLoop(m, fb, fi, n, tb, ti, k) ==
    IF k >= n THEN m
    ELSE LET c == CopyConstruct(m, fb, fi + k, tb, ti + k)
         IN  IF c.ex THEN destroy_n(c, tb, ti, k)
             ELSE UninitCopyLoop(c, fb, fi, n, tb, ti, k + 1)

\* A copy loop that leaves the copies it made behind when a copy throws.
RECURSIVE CopyNoRollbackLoop(_, _, _, _, _, _, _)
CopyNoRollbackLoop(m, fb, fi, n, tb, ti, k) ==
    IF k >= n THEN m
    ELSE LET c == CopyConstruct(m, fb, fi + k, tb, ti + k)
         IN  IF c.ex THEN c ELSE CopyNoRollbackLoop(c, fb, fi, n, tb, ti, k + 1)

CopyWithoutRollback(m, fb, fi, n, tb, ti) == CopyNoRollbackLoop(m, fb, fi, n, tb, ti, 0)

uninitialized_copy_n(m, fb, fi, n, tb, ti) == UninitCopyLoop(m, fb, fi, n, tb, ti, 0)

RECURSIVE UninitMoveLoop(_, _, _, _, _, _, _)
UninitMoveLoop(m, fb, fi, n, tb, ti, k) ==
    IF k >= n THEN m
    ELSE LET c == MoveConstruct(m, fb, fi + k, tb, ti + k)
         IN  IF c.ex THEN destroy_n(c, tb, ti, k)
             ELSE UninitMoveLoop(c, fb, fi, n, tb, ti, k + 1)

\* A move of one element too few.
MoveAllButLast(m, fb, fi, n, tb, ti) == UninitMoveLoop(m, fb, fi, n - 1, tb, ti, 0)

uninitialized_move_n(m, fb, fi, n, tb, ti) == UninitMoveLoop(m, fb, fi, n, tb, ti, 0)

RECURSIVE UninitValueLoop(_, _, _, _, _)
UninitValueLoop(m, b, i, n, k) ==
    IF k >= n THEN m
    ELSE LET c == New(m, b, i + k, DefaultVal)
         IN  IF c.ex THEN destroy_n(c, b, i, k)
             ELSE UninitValueLoop(c, b, i, n, k + 1)

\* A value construction of one element too few.
ValueConstructAllButLast(m, b, i, n) == UninitValueLoop(m, b, i, n - 1, 0)

uninitialized_value_construct_n(m, b, i, n) == UninitValueLoop(m, b, i, n, 0)

\* std::copy_n: copy-assigns front to back, stops at the first throw.
RECURSIVE CopyLoop(_, _, _, _, _, _, _)
CopyLoop(m, fb, fi, n, tb, ti, k) ==
    IF k >= n THEN m
    ELSE LET c == CopyAssign(m, fb, fi + k, tb, ti + k)
         IN  IF c.ex THEN c ELSE CopyLoop(c, fb, fi, n, tb, ti, k + 1)

copy_n(m, fb, fi, n, tb, ti) == CopyLoop(m, fb, fi, n, tb, ti, 0)

\* std::move(first, last, d_first): move-assigns front to back.
RECURSIVE MoveLoop(_, _, _, _, _, _)
MoveLoop(m, b, first, n, dfirst, k) ==
    IF k >= n THEN m
    ELSE LET c == MoveAssign(m, b, first + k, b, dfirst + k)
         IN  IF c.ex THEN c ELSE MoveLoop(c, b, first, n, dfirst, k + 1)

std_move(m, b, first, lst, dfirst) == MoveLoop(m, b, first, lst - first, dfirst, 0)

\* std::move_backward(first, last, d_last): move-assigns back to front.
RECURSIVE MoveBackLoop(_, _, _, _, _, _)
MoveBackLoop(m, b, lst, n, dlast, k) ==
    IF k > n THEN m
    ELSE LET c == MoveAssign(m, b, lst - k, b, dlast - k)
         IN  IF c.ex THEN c ELSE MoveBackLoop(c, b, lst, n, dlast, k + 1)

\* The shift done front to back, which overwrites elements not yet moved.
MoveFrontToBack(m, b, first, lst, dlast) == std_move(m, b, first, lst, dlast - (lst - first))

move_backward(m, b, first, lst, dlast) ==
    IF lst - first <= 0 THEN m ELSE MoveBackLoop(m, b, lst, lst - first, dlast, 1)

\* -------------------------------------------------------------- RawMemory
NoMemory == [buffer |-> nullptr, capacity |-> 0]

NumCtor(s) == Cardinality({k \in 1..Len(s) : s[k] # Raw})

FreeBlocks(m) == {b \in Blocks : ~m.h[b].alloc}

\* RawMemory::Allocate: operator new for n != 0, nullptr for n = 0.
Allocate(m, n) ==
    IF n = 0 THEN [m |-> m, buf |-> nullptr]
    ELSE LET t == Tick(m, TRUE)
         IN  IF t.ex \/ FreeBlocks(t) = {}
             THEN [m |-> [t EXCEPT !.ex = TRUE], buf |-> nullptr]
             ELSE LET b == CHOOSE x \in FreeBlocks(t) : \A y \in FreeBlocks(t) : x <= y
                  IN  [m |-> [t EXCEPT !.h[b] = [alloc |-> TRUE, slots |-> [k \in 1..n |-> Raw]],
                                       !.allocs = @ + 1],
                       buf |-> b]

\* RawMemory::Deallocate: operator delete; no destructor runs.
Deallocate(m, b) ==
    IF b = nullptr THEN m
    ELSE IF ~m.h[b].alloc THEN [m EXCEPT !.badFree = @ + 1]
    ELSE [m EXCEPT !.h[b] = [alloc |-> FALSE, slots |-> <<>>],
                   !.freedCtor = @ + NumCtor(m.h[b].slots)]

\* A constructor that allocates a spare block before the one it keeps.
RawMemoryNewTwice(m, n) ==
    [m |-> At(Allocate(Allocate(m, n).m, n).m, "alloc"),
     data |-> [buffer |-> Allocate(Allocate(m, n).m, n).buf,
               capacity |-> IF Allocate(Allocate(m, n).m, n).m.ex THEN 0 ELSE n]]

\* RawMemory(size_t capacity)
RawMemoryNew(m, n) ==
    LET a == Allocate(m, n)
    IN  [m |-> At(a.m, "alloc"),
         data |-> [buffer |-> a.buf, capacity |-> IF a.m.ex THEN 0 ELSE n]]

\* A destructor that keeps the block.
RawMemoryKept(m, data) == m

\* ~RawMemory()
RawMemoryDtor(m, data) == Deallocate(m, data.buffer)

\* ----------------------------------------------------------------- Vector
NotAlive == [alive |-> FALSE, data |-> NoMemory, size |-> 0]
Empty == [alive |-> TRUE, data |-> NoMemory, size |-> 0]

RelocatesByMove == T.nothrow_move \/ ~T.copyable

\* Relocation that always moves.
AlwaysMove(m, fb, fi, tb, ti, n) == uninitialized_move_n(m, fb, fi, n, tb, ti)

SafetyMoveOrCopy(m, fb, fi, tb, ti, n) ==
    IF RelocatesByMove THEN uninitialized_move_n(m, fb, fi, n, tb, ti)
    ELSE uninitialized_copy_n(m, fb, fi, n, tb, ti)

\* explicit Vector(size_t size)
VectorSized(m, n) ==
    LET a == RawMemoryNew(m, n)
    IN  IF a.m.ex THEN [m |-> a.m, V |-> NotAlive]
        ELSE LET c == At(uninitialized_value_construct_n(a.m, a.data.buffer, 0, n), "construct")
             IN  IF c.ex THEN [m |-> RawMemoryDtor(c, a.data), V |-> NotAlive]
                 ELSE [m |-> c, V |-> [alive |-> TRUE, data |-> a.data, size |-> n]]

\* A copy that takes the block of the source instead of a block of its own.
VectorCopyShared(m, other) ==
    [m |-> m, V |-> [alive |-> TRUE, data |-> other.data, size |-> other.size]]

\* Vector(const Vector& other)
VectorCopy(m, other) ==
    LET a == RawMemoryNew(m, other.size)
    IN  IF a.m.ex THEN [m |-> a.m, V |-> NotAlive]
        ELSE LET c == At(uninitialized_copy_n(a.m, other.data.buffer, 0, other.size,
                                              a.data.buffer, 0), "copy")
             IN  IF c.ex THEN [m |-> RawMemoryDtor(c, a.data), V |-> NotAlive]
                 ELSE [m |-> c, V |-> [alive |-> TRUE, data |-> a.data, size |-> other.size]]

\* A move that leaves the source its size.
VectorMoveKeepsSize(other) ==
    [V |-> [alive |-> TRUE, data |-> other.data, size |-> other.size],
     R |-> [other EXCEPT !.data = NoMemory]]

\* Vector(Vector&& other) noexcept
VectorMove(other) ==
    [V |-> [alive |-> TRUE, data |-> other.data, size |-> other.size],
     R |-> [other EXCEPT !.data = NoMemory, !.size = 0]]

\* ~Vector(), then the destructor of the member data_
VectorDtor(m, V) == RawMemoryDtor(destroy_n(m, V.data.buffer, 0, V.size), V.data)

\* A swap of the blocks that leaves the sizes where they were.
SwapDataOnly(V, R) ==
    [V |-> [V EXCEPT !.data = R.data], R |-> [R EXCEPT !.data = V.data]]

\* void Swap(Vector& other) noexcept
Swap(V, R) ==
    [V |-> [V EXCEPT !.data = R.data, !.size = R.size],
     R |-> [R EXCEPT !.data = V.data, !.size = V.size]]

\* void Reserve(size_t new_capacity)
Reserve(m, V, n) ==
    IF n <= V.data.capacity THEN [m |-> m, V |-> V]
    ELSE LET a == RawMemoryNew(m, n)
         IN  IF a.m.ex THEN [m |-> a.m, V |-> V]
             ELSE LET r == At(SafetyMoveOrCopy(a.m, V.data.buffer, 0, a.data.buffer, 0, V.size),
                              "relocate")
                  IN  IF r.ex THEN [m |-> RawMemoryDtor(r, a.data), V |-> V]
                      ELSE [m |-> RawMemoryDtor(destroy_n(r, V.data.buffer, 0, V.size), V.data),
                            V |-> [V EXCEPT !.data = a.data]]

\* void Resize(size_t new_size)
Resize(m, V, n) ==
    IF V.size > n
    THEN [m |-> destroy_n(m, V.data.buffer, n, V.size - n), V |-> [V EXCEPT !.size = n]]
    ELSE IF V.size < n
    THEN LET r == Reserve(m, V, n)
         IN  IF r.m.ex THEN r
             ELSE LET c == At(uninitialized_value_construct_n(r.m, r.V.data.buffer, V.size,
                                                              n - V.size), "construct")
                  IN  IF c.ex THEN [m |-> c, V |-> r.V]
                      ELSE [m |-> c, V |-> [r.V EXCEPT !.size = n]]
    ELSE [m |-> m, V |-> V]

\* A PopBack that does not look at the size.
PopBackUnguarded(m, V) ==
    [m |-> destroy_n(m, V.data.buffer, V.size - 1, 1), V |-> [V EXCEPT !.size = @ - 1]]

\* void PopBack() noexcept
PopBack(m, V) ==
    IF V.size # 0
    THEN [m |-> destroy_n(m, V.data.buffer, V.size - 1, 1), V |-> [V EXCEPT !.size = @ - 1]]
    ELSE [m |-> m, V |-> V]

\* What Emplace is called with: a value of its own, an element of the same
\* vector (v[j]), or an element of the same vector given up (std::move(v[j])).
ByValue(x) == [kind |-> "value", at |-> x]
ElementRef(j) == [kind |-> "lvalue", at |-> j]
ElementMove(j) == [kind |-> "rvalue", at |-> j]

\* new (p) T(std::forward<Args>(args)...): a reference is read when the
\* constructor runs, from the block the vector has at that moment.
ConstructArgs(m, V, tb, ti, args) ==
    IF args.kind = "value" THEN New(m, tb, ti, args.at)
    ELSE IF args.kind = "lvalue" THEN CopyConstruct(m, V.data.buffer, args.at, tb, ti)
    ELSE MoveConstruct(m, V.data.buffer, args.at, tb, ti)

\* T temp(std::forward<Args>(args)...): the value the temporary holds.
TempValue(m, V, args) ==
    IF args.kind = "value" THEN args.at ELSE Get(m, V.data.buffer, args.at)

\* T temp(std::forward<Args>(args)...): what constructing it does.
TempConstruct(m, V, args) ==
    IF args.kind = "value" THEN Tick(m, TRUE)
    ELSE IF args.kind = "lvalue" THEN Use(Tick(m, TRUE), V.data.buffer, args.at)
    ELSE LET t == Tick(m, MoveThrows)
         IN  IF t.ex THEN t
             ELSE LeaveMovedFrom(Use(t, V.data.buffer, args.at), V.data.buffer, args.at)

\* Growth by one slot.
GrowByOne(size) == size + 1

\* The capacity of the new block of a relocating Emplace.
GrownCapacity(size) == IF size = 0 THEN 1 ELSE size * 2

\* void EmplaceWithRelocate(const size_t index, Args&&... args)
EmplaceWithRelocate(m, V, index, args) ==
    LET a == RawMemoryNew(m, GrownCapacity(V.size))
        old == V.data.buffer
        nb == a.data.buffer
    IN  IF a.m.ex THEN [m |-> a.m, V |-> V]
        ELSE LET c == At(ConstructArgs(a.m, V, nb, index, args), "construct")
             IN  IF c.ex THEN [m |-> RawMemoryDtor(c, a.data), V |-> V]
                 ELSE LET p == At(SafetyMoveOrCopy(c, old, 0, nb, 0, index), "prefix")
                      IN  IF p.ex
                          THEN [m |-> RawMemoryDtor(destroy_n(p, nb, index, 1), a.data), V |-> V]
                          ELSE LET s == At(SafetyMoveOrCopy(p, old, index, nb, index + 1,
                                                            V.size - index), "suffix")
                               IN  IF s.ex
                                   THEN [m |-> RawMemoryDtor(destroy_n(s, nb, 0, index + 1), a.data),
                                         V |-> V]
                                   ELSE [m |-> RawMemoryDtor(destroy_n(s, old, 0, V.size), V.data),
                                         V |-> [V EXCEPT !.data = a.data]]

\* An in-place Emplace that makes room first and reads its arguments last.
EmplaceShiftFirst(m, V, index, args) ==
    LET b == V.data.buffer
    IN  IF index # V.size
        THEN LET tail == MoveConstruct(m, b, V.size - 1, b, V.size)
             IN  IF tail.ex THEN tail
                 ELSE LET sh == move_backward(tail, b, index, V.size - 1, V.size)
                      IN  IF sh.ex THEN destroy_n(sh, b, V.size, 1)
                          ELSE LET asg == TempConstruct(sh, V, args)
                               IN  IF asg.ex THEN asg
                                   ELSE Put(asg, b, index, TempValue(sh, V, args))
        ELSE ConstructArgs(m, V, b, index, args)

\* void EmplaceWithoutRelocate(const size_t index, Args&&... args)
EmplaceWithoutRelocate(m, V, index, args) ==
    LET b == V.data.buffer
    IN  IF index # V.size
        THEN LET temp == At(TempConstruct(m, V, args), "construct")
             IN  IF temp.ex THEN temp
                 ELSE LET tail == At(MoveConstruct(temp, b, V.size - 1, b, V.size), "tail")
                      IN  IF tail.ex THEN tail
                          ELSE LET sh == At(move_backward(tail, b, index, V.size - 1, V.size),
                                            "shift")
                               IN  IF sh.ex THEN destroy_n(sh, b, V.size, 1)
                                   ELSE LET asg == At(Tick(sh, MoveThrows), "assign")
                                        IN  IF asg.ex THEN asg
                                            ELSE Put(Use(asg, b, index), b, index,
                                                     TempValue(m, V, args))
        ELSE At(ConstructArgs(m, V, b, index, args), "construct")

\* iterator Emplace(const_iterator pos, Args&&... args)
\* r is what the path taken left: an exception leaves Emplace there,
\* otherwise ++size_ and return begin() + index.
EmplaceReturn(r, index) ==
    IF r.m.ex THEN [m |-> r.m, V |-> r.V, ret |-> <<>>]
    ELSE [m |-> r.m, V |-> [r.V EXCEPT !.size = @ + 1],
          ret |-> <<r.V.data.buffer, index>>]

\* An Emplace that takes a new block whether or not there is room.
EmplaceAlwaysRelocate(m, V, index, args) ==
    EmplaceReturn(EmplaceWithRelocate(m, V, index, args), index)

\* iterator Emplace(const_iterator pos, Args&&... args)
Emplace(m, V, index, args) ==
    EmplaceReturn(IF V.size = V.data.capacity THEN EmplaceWithRelocate(m, V, index, args)
                  ELSE [m |-> EmplaceWithoutRelocate(m, V, index, args), V |-> V],
                  index)

\* iterator Erase(const_iterator pos)
Erase(m, V, index) ==
    LET b == V.data.buffer
        mv == At(std_move(m, b, index + 1, V.size, index), "shift")
    IN  IF mv.ex THEN [m |-> mv, V |-> V, ret |-> <<>>]
        ELSE [m |-> destroy_n(mv, b, V.size, 1), V |-> [V EXCEPT !.size = @ - 1],
              ret |-> <<b, index>>]

\* Vector& operator=(const Vector& rhs), this != &rhs
VectorCopyAssign(m, V, R) ==
    IF R.size > V.data.capacity
    THEN LET temp == VectorCopy(m, R)
         IN  IF temp.m.ex THEN [m |-> temp.m, V |-> V]
             ELSE [m |-> VectorDtor(temp.m, Swap(V, temp.V).R), V |-> Swap(V, temp.V).V]
    ELSE LET c == At(copy_n(m, R.data.buffer, 0, Min(V.size, R.size), V.data.buffer, 0),
                     "assign")
         IN  IF c.ex THEN [m |-> c, V |-> V]
             ELSE IF V.size > R.size
             THEN [m |-> destroy_n(c, V.data.buffer, R.size, V.size - R.size),
                   V |-> [V EXCEPT !.size = R.size]]
             ELSE IF V.size < R.size
             THEN LET r == Reserve(c, V, R.size)
                      u == At(uninitialized_copy_n(r.m, R.data.buffer, V.size, R.size - V.size,
                                                   r.V.data.buffer, V.size), "copy")
                  IN  IF r.m.ex THEN r
                      ELSE IF u.ex THEN [m |-> u, V |-> r.V]
                      ELSE [m |-> u, V |-> [r.V EXCEPT !.size = R.size]]
             ELSE [m |-> c, V |-> [V EXCEPT !.size = R.size]]

\* A move assignment that leaves the source its block.
RawMemoryMoveAssignShared(m, data, rhs) ==
    [m |-> Deallocate(m, data.buffer), data |-> rhs, rhs |-> rhs]

\* RawMemory& operator=(RawMemory&& rhs) noexcept, this != &rhs
RawMemoryMoveAssign(m, data, rhs) ==
    [m |-> Deallocate(m, data.buffer), data |-> rhs, rhs |-> NoMemory]

\* Vector& operator=(Vector&& rhs) noexcept, this != &rhs
VectorMoveAssign(m, V, R) ==
    LET d == RawMemoryMoveAssign(m, V.data, R.data)
    IN  [m |-> d.m,
         V |-> [V EXCEPT !.data = d.data, !.size = R.size],
         R |-> [R EXCEPT !.data = d.rhs, !.size = 0]]

\* ---------------------------------------------------------------- actions
\* The elements of a vector, front to back.
Elems(h, V) == [k \in 1..V.size |-> IF k <= Len(h[V.data.buffer].slots)
                                    THEN h[V.data.buffer].slots[k] ELSE Raw]

Contents(v) == Elems(heap, vec[v])

NoLog == [valid |-> FALSE, seq |-> <<>>]
NewLog == [valid |-> TRUE, seq |-> <<>>]

\* What the last call was and what it did.  For a call that threw, the step
\* the exception came from is kept in place of the value passed.
Record(op, v, w, idx, val, m, path, pre, ret) ==
    [op |-> op, v |-> v, w |-> w, idx |-> idx,
     val |-> IF m.ex THEN 0 ELSE val,
     res |-> IF m.ex THEN "threw" ELSE "ok", stage |-> m.stage, path |-> path,
     allocs |-> m.allocs, dtors |-> m.dtors, rawDtor |-> m.rawDtor, oob |-> m.oob,
     freedCtor |-> m.freedCtor, ctorOver |-> m.ctorOver, badFree |-> m.badFree,
     rawUse |-> m.rawUse,
     pre |-> IF m.ex THEN <<>> ELSE pre, ret |-> ret]

Running == last.res # "trap"

\* The capacity asked of the last Reserve(c) of a vector and the block and
\* capacity it left, kept while the calls that follow are PushBack, Insert,
\* Emplace, PopBack and Erase and the size stays within c.
NoReserve == [valid |-> FALSE, c |-> 0, data |-> NoMemory]

Reserved(v, n) ==
    reserved' = [reserved EXCEPT ![v] =
                    IF last'.res = "ok" THEN [valid |-> TRUE, c |-> n, data |-> vec'[v].data]
                    ELSE NoReserve]

KeepReserve(v) ==
    reserved' = [reserved EXCEPT ![v] =
                    IF @.valid /\ vec'[v].size <= @.c THEN @ ELSE NoReserve]

DropReserve(v, w) == reserved' = [reserved EXCEPT ![v] = NoReserve, ![w] = NoReserve]

\* The call on vector v returned or threw, leaving r: the heap, the vector
\* and the record of the call.
Returned(v, r, op, w, idx, val, path, pre) ==
    /\ heap' = r.m.h
    /\ vec' = [vec EXCEPT ![v] = r.V]
    /\ last' = Record(op, v, w, idx, val, r.m, path, pre, <<>>)

\* The same for the calls that return an iterator.
ReturnedIter(v, r, op, idx, val, path, pre) ==
    /\ heap' = r.m.h
    /\ vec' = [vec EXCEPT ![v] = r.V]
    /\ last' = Record(op, v, 0, idx, val, r.m, path, pre, r.ret)

Init ==
    /\ T \in ElemTypes
    /\ heap = [b \in Blocks |-> [alloc |-> FALSE, slots |-> <<>>]]
    /\ vec = [v \in VecIds |-> IF v = 1 THEN Empty ELSE NotAlive]
    /\ last = Record("Vector", 1, 0, 0, 0, Machine(0), "", <<>>, <<>>)
    /\ pushed = [v \in VecIds |-> IF v = 1 THEN NewLog ELSE NoLog]
    /\ reserved = [v \in VecIds |-> NoReserve]

\* Vector() noexcept
DefaultCtorAct(v) ==
    /\ Running
    /\ ~vec[v].alive
    /\ vec' = [vec EXCEPT ![v] = Empty]
    /\ last' = Record("Vector", v, 0, 0, 0, Machine(0), "", <<>>, <<>>)
    /\ pushed' = [pushed EXCEPT ![v] = NewLog]
    /\ DropReserve(v, v)
    /\ UNCHANGED <<T, heap>>

SizedCtorAct(v, n, fuel) ==
    /\ Running
    /\ ~vec[v].alive
    /\ Returned(v, VectorSized(Machine(fuel), n), "VectorSized", 0, n, 0, "", <<>>)
    /\ pushed' = [pushed EXCEPT ![v] = NoLog]
    /\ DropReserve(v, v)
    /\ UNCHANGED T

CopyCtorAct(v, w, fuel) ==
    /\ Running
    /\ T.copyable
    /\ ~vec[v].alive
    /\ vec[w].alive
    /\ Returned(v, VectorCopy(Machine(fuel), vec[w]), "VectorCopy", w, 0, 0, "", <<>>)
    /\ pushed' = [pushed EXCEPT ![v] = NoLog]
    /\ DropReserve(v, v)
    /\ UNCHANGED T

MoveCtorAct(v, w) ==
    /\ Running
    /\ ~vec[v].alive
    /\ vec[w].alive
    /\ LET r == VectorMove(vec[w])
       IN  vec' = [vec EXCEPT ![v] = r.V, ![w] = r.R]
    /\ last' = Record("VectorMove", v, w, 0, 0, Machine(0), "", <<>>, <<>>)
    /\ pushed' = [pushed EXCEPT ![v] = NoLog, ![w] = NoLog]
    /\ DropReserve(v, w)
    /\ UNCHANGED <<T, heap>>

DtorAct(v) ==
    /\ Running
    /\ vec[v].alive
    /\ Returned(v, [m |-> VectorDtor(Machine(0), vec[v]), V |-> NotAlive],
                "Dtor", 0, 0, 0, "", <<>>)
    /\ pushed' = [pushed EXCEPT ![v] = NoLog]
    /\ DropReserve(v, v)
    /\ UNCHANGED T

CopyAssignAct(v, w, fuel) ==
    /\ Running
    /\ T.copyable
    /\ vec[v].alive
    /\ vec[w].alive
    /\ Returned(v, IF v = w THEN [m |-> Machine(fuel), V |-> vec[v]]
                   ELSE VectorCopyAssign(Machine(fuel), vec[v], vec[w]),
                "CopyAssign", w, 0, 0,
                IF vec[w].size > vec[v].data.capacity THEN "relocate" ELSE "inplace", <<>>)
    /\ pushed' = [pushed EXCEPT ![v] = NoLog]
    /\ DropReserve(v, v)
    /\ UNCHANGED T

MoveAssignAct(v, w) ==
    /\ Running
    /\ vec[v].alive
    /\ vec[w].alive
    /\ LET r == IF v = w THEN [m |-> Machine(0), V |-> vec[v], R |-> vec[w]]
                ELSE VectorMoveAssign(Machine(0), vec[v], vec[w])
       IN  /\ heap' = r.m.h
           /\ vec' = [vec EXCEPT ![w] = r.R, ![v] = r.V]
           /\ last' = Record("MoveAssign", v, w, 0, 0, r.m, "", <<>>, <<>>)
    /\ pushed' = [pushed EXCEPT ![v] = NoLog, ![w] = NoLog]
    /\ DropReserve(v, w)
    /\ UNCHANGED T

SwapAct(v, w) ==
    /\ Running
    /\ vec[v].alive
    /\ vec[w].alive
    /\ LET r == Swap(vec[v], vec[w])
       IN  vec' = [vec EXCEPT ![w] = r.R, ![v] = IF v = w THEN vec[v] ELSE r.V]
    /\ last' = Record("Swap", v, w, 0, 0, Machine(0), "", <<>>, <<>>)
    /\ pushed' = [pushed EXCEPT ![v] = NoLog, ![w] = NoLog]
    /\ DropReserve(v, w)
    /\ UNCHANGED <<T, heap>>

ReserveAct(v, n, fuel) ==
    /\ Running
    /\ vec[v].alive
    /\ Returned(v, Reserve(Machine(fuel), vec[v], n), "Reserve", 0, n, 0, "", <<>>)
    /\ pushed' = [pushed EXCEPT ![v] = NoLog]
    /\ Reserved(v, n)
    /\ UNCHANGED T

ResizeAct(v, n, fuel) ==
    /\ Running
    /\ vec[v].alive
    /\ Returned(v, Resize(Machine(fuel), vec[v], n), "Resize", 0, n, 0, "", <<>>)
    /\ pushed' = [pushed EXCEPT ![v] = NoLog]
    /\ DropReserve(v, v)
    /\ UNCHANGED T

PopBackAct(v) ==
    /\ Running
    /\ vec[v].alive
    /\ Returned(v, PopBack(Machine(0), vec[v]), "PopBack", 0, 0, 0, "", <<>>)
    /\ pushed' = [pushed EXCEPT ![v] = NoLog]
    /\ KeepReserve(v)
    /\ UNCHANGED T

PathOf(V) == IF V.size = V.data.capacity THEN "relocate" ELSE "inplace"

\* v.Insert(v.begin() + index, v[j]), v.PushBack(v[j]) and
\* v.Emplace(v.begin() + index, v[j]): the argument is element j of v itself.
\* The record of the call keeps j where other calls keep the value passed.
InsertElementAct(v, index, j, fuel) ==
    /\ Running
    /\ vec[v].alive
    /\ T.copyable
    /\ index \in 0..vec[v].size
    /\ j \in 0..(vec[v].size - 1)
    /\ ReturnedIter(v, Emplace(Machine(fuel), vec[v], index, ElementRef(j)),
                    "InsertElement", index, j, PathOf(vec[v]), Contents(v))
    /\ pushed' = [pushed EXCEPT ![v] = NoLog]
    /\ KeepReserve(v)
    /\ UNCHANGED T

\* The same calls with std::move(v[j]): element j is given up to the new one.
InsertMovedElementAct(v, index, j, fuel) ==
    /\ Running
    /\ vec[v].alive
    /\ index \in 0..vec[v].size
    /\ j \in 0..(vec[v].size - 1)
    /\ ReturnedIter(v, Emplace(Machine(fuel), vec[v], index, ElementMove(j)),
                    "InsertMovedElement", index, j, PathOf(vec[v]), Contents(v))
    /\ pushed' = [pushed EXCEPT ![v] = NoLog]
    /\ KeepReserve(v)
    /\ UNCHANGED T

\* Insert(pos, value) and Emplace(pos, args...)
EmplaceAct(v, index, val, fuel) ==
    /\ Running
    /\ vec[v].alive
    /\ index \in 0..vec[v].size
    /\ ReturnedIter(v, Emplace(Machine(fuel), vec[v], index, ByValue(val)),
                    "Emplace", index, val, PathOf(vec[v]), Contents(v))
    /\ pushed' = [pushed EXCEPT ![v] = NoLog]
    /\ KeepReserve(v)
    /\ UNCHANGED T

\* PushBack(value) and EmplaceBack(args...): Emplace(end(), ...)
PushBackAct(v, val, fuel) ==
    /\ Running
    /\ vec[v].alive
    /\ ReturnedIter(v, Emplace(Machine(fuel), vec[v], vec[v].size, ByValue(val)),
                    "PushBack", vec[v].size, val, PathOf(vec[v]), <<>>)
    /\ pushed' = [pushed EXCEPT ![v] =
                     IF pushed[v].valid /\ last'.res = "ok"
                     THEN [valid |-> TRUE, seq |-> Append(pushed[v].seq, val)]
                     ELSE NoLog]
    /\ KeepReserve(v)
    /\ UNCHANGED T

\* What a build does with a destructor call on a slot that holds no object is
\* undefined: the call may pass unnoticed or the process may abort in it.
Outcomes(m) == IF m.rawDtor > 0 THEN {"benign", "trap"} ELSE {"benign"}

\* The Erase that left r returned or threw (benign), or the process aborted
\* in it (trap): the vector object is as it was, the elements moved so far
\* stay moved.
ErasedOrTrapped(v, r, index, outcome) ==
    /\ outcome \in Outcomes(r.m)
    /\ heap' = r.m.h
    /\ vec' = IF outcome = "trap" THEN vec ELSE [vec EXCEPT ![v] = r.V]
    /\ last' = IF outcome = "trap"
               THEN [Record("Erase", v, 0, index, 0, r.m, "", <<>>, <<>>) EXCEPT !.res = "trap"]
               ELSE Record("Erase", v, 0, index, 0, r.m, "", <<>>, r.ret)

EraseAct(v, index, fuel, outcome) ==
    /\ Running
    /\ vec[v].alive
    /\ index \in 0..(vec[v].size - 1)
    /\ ErasedOrTrapped(v, Erase(Machine(fuel), vec[v], index), index, outcome)
    /\ pushed' = [pushed EXCEPT ![v] = NoLog]
    /\ KeepReserve(v)
    /\ UNCHANGED T

\* The step that fails is chosen by the fuel: fuel k lets k fallible steps
\* succeed and makes the next one throw.  Steps is the number of fallible
\* steps a call takes when none throws, so the fuels 0..Steps - 1 are its
\* failures and the fuel Steps is the call that succeeds.
Plenty == 4 * (MaxCap + GrowCap + PairCap + 1)
Steps(m) == Plenty - m.fuel
Fuels(m) == 0..Steps(m)

SizedCtorFuels(n) == Fuels(VectorSized(Machine(Plenty), n).m)
CopyCtorFuels(w) == Fuels(VectorCopy(Machine(Plenty), vec[w]).m)
CopyAssignFuels(v, w) ==
    IF v = w THEN {0} ELSE Fuels(VectorCopyAssign(Machine(Plenty), vec[v], vec[w]).m)
ReserveFuels(v, n) == Fuels(Reserve(Machine(Plenty), vec[v], n).m)
ResizeFuels(v, n) == Fuels(Resize(Machine(Plenty), vec[v], n).m)
EmplaceFuels(v, i, x) == Fuels(Emplace(Machine(Plenty), vec[v], i, ByValue(x)).m)
ElementFuels(v, i, args) == Fuels(Emplace(Machine(Plenty), vec[v], i, args).m)
EraseFuels(v, i) == Fuels(Erase(Machine(Plenty), vec[v], i).m)

\* A relocating Emplace is offered only while the grown capacity is within lim.
GrowthWithin(v, lim) ==
    vec[v].size = vec[v].data.capacity => GrownCapacity(vec[v].size) <= lim

\* One vector, every operation on it.
Next ==
    \/ \E n \in 0..MaxCap : \E fuel \in SizedCtorFuels(n) : SizedCtorAct(1, n, fuel)
    \/ DefaultCtorAct(1)
    \/ DtorAct(1)
    \/ \E n \in 0..MaxCap : \E fuel \in ReserveFuels(1, n) : ReserveAct(1, n, fuel)
    \/ \E n \in 0..MaxCap : \E fuel \in ResizeFuels(1, n) : ResizeAct(1, n, fuel)
    \/ PopBackAct(1)
    \/ \E i \in 0..vec[1].size, x \in Values : \E fuel \in EmplaceFuels(1, i, x) :
          GrowthWithin(1, MaxCap) /\ EmplaceAct(1, i, x, fuel)
    \/ \E x \in Values : \E fuel \in EmplaceFuels(1, vec[1].size, x) :
          GrowthWithin(1, MaxCap) /\ PushBackAct(1, x, fuel)
    \/ \E i \in 0..(vec[1].size - 1), o \in {"benign", "trap"} : \E fuel \in EraseFuels(1, i) :
          EraseAct(1, i, fuel, o)

Spec == Init /\ [][Next]_vars

\* One vector that grows from empty: the operations that insert, with room
\* for the capacities 1, 2 and 4.
NextGrow ==
    \/ PopBackAct(1)
    \/ \E i \in 0..vec[1].size, x \in Values : \E fuel \in EmplaceFuels(1, i, x) :
          GrowthWithin(1, GrowCap) /\ EmplaceAct(1, i, x, fuel)
    \/ \E x \in Values : \E fuel \in EmplaceFuels(1, vec[1].size, x) :
          GrowthWithin(1, GrowCap) /\ PushBackAct(1, x, fuel)

SpecGrow == Init /\ [][NextGrow]_vars

\* Two vectors: construction, destruction, assignment and swap from one to
\* the other, and PushBack and PopBack to give them contents.
NextPair ==
    \/ \E v \in VecIds, n \in 0..PairCap : \E fuel \in SizedCtorFuels(n) :
          SizedCtorAct(v, n, fuel)
    \/ \E v \in VecIds : DefaultCtorAct(v)
    \/ \E v \in VecIds : \E w \in VecIds \ {v} : \E fuel \in CopyCtorFuels(w) :
          CopyCtorAct(v, w, fuel)
    \/ \E v \in VecIds : \E w \in VecIds \ {v} : MoveCtorAct(v, w)
    \/ \E v \in VecIds : DtorAct(v)
    \/ \E v \in VecIds, w \in VecIds : \E fuel \in CopyAssignFuels(v, w) :
          CopyAssignAct(v, w, fuel)
    \/ \E v \in VecIds, w \in VecIds : MoveAssignAct(v, w)
    \/ \E v \in VecIds, w \in VecIds : SwapAct(v, w)
    \/ \E v \in VecIds : PopBackAct(v)
    \/ \E v \in VecIds : \E x \in Values : \E fuel \in EmplaceFuels(v, vec[v].size, x) :
          GrowthWithin(v, PairCap) /\ PushBackAct(v, x, fuel)

SpecPair == Init /\ [][NextPair]_vars

\* One vector with every operation, and a second one, built by Vector(n),
\* that the first is copied and moved from.
NextSource ==
    \/ \E v \in VecIds, n \in 0..PairCap : \E fuel \in SizedCtorFuels(n) :
          SizedCtorAct(v, n, fuel)
    \/ DefaultCtorAct(1)
    \/ \E fuel \in CopyCtorFuels(2) : CopyCtorAct(1, 2, fuel)
    \/ MoveCtorAct(1, 2)
    \/ \E v \in VecIds : DtorAct(v)
    \/ \E fuel \in CopyAssignFuels(1, 2) : CopyAssignAct(1, 2, fuel)
    \/ MoveAssignAct(1, 2)
    \/ \E n \in 0..PairCap : \E fuel \in ReserveFuels(1, n) : ReserveAct(1, n, fuel)
    \/ \E n \in 0..PairCap : \E fuel \in ResizeFuels(1, n) : ResizeAct(1, n, fuel)
    \/ PopBackAct(1)
    \/ \E i \in 0..vec[1].size, x \in Values : \E fuel \in EmplaceFuels(1, i, x) :
          GrowthWithin(1, PairCap) /\ EmplaceAct(1, i, x, fuel)
    \/ \E x \in Values : \E fuel \in EmplaceFuels(1, vec[1].size, x) :
          GrowthWithin(1, PairCap) /\ PushBackAct(1, x, fuel)
    \/ \E i \in 0..(vec[1].size - 1), o \in {"benign", "trap"} : \E fuel \in EraseFuels(1, i) :
          EraseAct(1, i, fuel, o)

SpecSource == Init /\ [][NextSource]_vars

\* One vector filled by PushBack and emptied by PopBack, and Insert called
\* with one of the vector's own elements as its argument.
NextAlias ==
    \/ PopBackAct(1)
    \/ \E x \in Values : \E fuel \in EmplaceFuels(1, vec[1].size, x) :
          GrowthWithin(1, GrowCap) /\ PushBackAct(1, x, fuel)
    \/ \E i \in 0..vec[1].size, j \in 0..(vec[1].size - 1) :
          \E fuel \in ElementFuels(1, i, ElementRef(j)) :
             GrowthWithin(1, GrowCap) /\ InsertElementAct(1, i, j, fuel)
    \/ \E i \in 0..vec[1].size, j \in 0..(vec[1].size - 1) :
          \E fuel \in ElementFuels(1, i, ElementMove(j)) :
             GrowthWithin(1, GrowCap) /\ InsertMovedElementAct(1, i, j, fuel)

SpecAlias == Init /\ [][NextAlias]_vars

\* ----------------------------------------------------------- properties
Slots(v) == heap[vec[v].data.buffer].slots

\* Every constructed object of V's block is one of V's elements.
NoneBeyond(h, V) ==
    V.data.buffer # nullptr =>
        \A k \in 1..Len(h[V.data.buffer].slots) :
            h[V.data.buffer].slots[k] # Raw => k <= V.size

\* Every element of V is a constructed object.
AllBelow(h, V) ==
    /\ V.size > 0 => V.data.buffer # nullptr
    /\ V.data.buffer # nullptr =>
          /\ V.size <= Len(h[V.data.buffer].slots)
          /\ \A k \in 1..V.size : h[V.data.buffer].slots[k] # Raw

NoneBeyondSize(v) == NoneBeyond(heap, vec[v])
AllBelowSize(v) == AllBelow(heap, vec[v])

InsertAt(s, p, x) == SubSeq(s, 1, p) \o <<x>> \o SubSeq(s, p + 1, Len(s))
RemoveAt(s, p) == SubSeq(s, 1, p) \o SubSeq(s, p + 2, Len(s))

IsInsert(r) == r.op \in {"Emplace", "PushBack"}

\* C1: in every reachable state, each slot at an index in [0, size) holds a
\* constructed object and each slot at an index in [size, capacity) is raw
\* memory.  Erase refutes it: it leaves the old last element constructed at
\* the index of the new size.
C1_LiveBelowSizeRawAbove ==
    \A v \in VecIds : vec[v].alive => AllBelowSize(v) /\ NoneBeyondSize(v)

\* C2: when the destructor, Reserve, a relocating Emplace, copy-assignment or
\* move-assignment frees or replaces a block, every element that was live in
\* it has been destroyed, exactly once: a call that starts with all the
\* constructed objects being elements frees no constructed object and runs
\* no destructor on a slot without one.  Move-assignment refutes it.
C2_DestroyedBeforeFreed ==
    [][(/\ \A v \in VecIds : NoneBeyondSize(v)
        /\ last'.op \in {"Dtor", "Reserve", "Emplace", "PushBack", "CopyAssign", "MoveAssign"})
       => (last'.freedCtor = 0 /\ last'.rawDtor = 0)]_vars

\* C3: Erase(pos) at index p < size removes element p and keeps the order of
\* the others, decrements size, keeps the capacity, and runs exactly one
\* destructor, on the slot of the old last element; no destructor runs on a
\* slot at an index >= the old size.  The destroy_n of Erase refutes it.
C3_EraseDestroysLastSlot ==
    [][(last'.op = "Erase" /\ last'.res # "threw")
       => LET v == last'.v
          IN  /\ last'.res = "ok"
              /\ Elems(heap', vec'[v]) = RemoveAt(Contents(v), last'.idx)
              /\ vec'[v].size = vec[v].size - 1
              /\ vec'[v].data = vec[v].data
              /\ last'.dtors = 1
              /\ last'.rawDtor = 0
              /\ last'.oob = 0
              /\ heap'[vec[v].data.buffer].slots[vec[v].size] = Raw
              /\ NumCtor(heap'[vec[v].data.buffer].slots) = NumCtor(Slots(v)) - 1]_vars

\* The cleanup every failed relocating insert owes: the vector keeps its
\* block, capacity and size, the objects placed in the new block are
\* destroyed exactly once and the new block is freed.
RelocationRolledBack ==
    /\ vec' = vec
    /\ \A b \in Blocks : heap'[b].alloc = heap[b].alloc
    /\ last'.freedCtor = 0
    /\ last'.rawDtor = 0
    /\ last'.ctorOver = 0

FailedRelocatingInsert ==
    IsInsert(last') /\ last'.path = "relocate" /\ last'.res = "threw"

\* Every slot holds what it held, or an old element that was moved from.
OldValuesOrMovedFrom ==
    \A b \in Blocks :
        /\ Len(heap'[b].slots) = Len(heap[b].slots)
        /\ \A k \in 1..Len(heap[b].slots) :
               heap'[b].slots[k] \in {heap[b].slots[k], MovedFrom}

\* C4, by element type: a failed relocating Insert/Emplace rolls the new block
\* back; it leaves every old element with its old value when T is relocated
\* by copy or T's move cannot throw, and otherwise with its old value or
\* moved from.
C4_RelocatingInsertStrong ==
    [][FailedRelocatingInsert
       => /\ RelocationRolledBack
          /\ OldValuesOrMovedFrom
          /\ (T.copyable \/ T.nothrow_move) => heap' = heap]_vars

\* C4 for every T: a failed relocating Insert/Emplace leaves the vector exactly
\* as before, every old element with its old value, for every T.
C4_RelocatingInsertStrongAnyT ==
    [][FailedRelocatingInsert => (RelocationRolledBack /\ heap' = heap)]_vars

\* C4's case: the relocation of the suffix failed on a T relocated by copy,
\* after a prefix was copied.
C4_Witness ==
    /\ IsInsert(last) /\ last.path = "relocate" /\ last.res = "threw"
    /\ last.stage = "suffix"
    /\ ~RelocatesByMove
    /\ last.idx = 1
    /\ vec[1].size = 2

\* C5: for a T relocated by copy, a copy that fails during Reserve(newCap)
\* with newCap > capacity leaves the vector with the same block, capacity,
\* size and element values; the copies made in the new block are destroyed
\* exactly once and the new block is freed.
C5_ReserveCopyFailureRollsBack ==
    [][(/\ last'.op = "Reserve"
        /\ last'.res = "threw"
        /\ last'.stage = "relocate"
        /\ ~RelocatesByMove)
       => /\ vec' = vec
          /\ heap' = heap
          /\ last'.freedCtor = 0
          /\ last'.rawDtor = 0
          /\ last'.allocs = 1]_vars

\* C5's case: Reserve failed in a copy after it had made a copy.
C5_Witness ==
    /\ last.op = "Reserve"
    /\ last.res = "threw"
    /\ last.stage = "relocate"
    /\ ~RelocatesByMove
    /\ last.dtors >= 1
    /\ last.idx > vec[1].data.capacity

\* C6: a failure at any step of the in-place Insert/Emplace leaves no leak and
\* no double destruction: every constructed object of the block is an element
\* (at an index in [0, size)) when the call is left.  The failure of the
\* final assignment refutes it: the new tail slot stays constructed.
C6_InPlaceInsertNoLeak ==
    [][(/\ IsInsert(last')
        /\ last'.path = "inplace"
        /\ last'.res = "threw"
        /\ NoneBeyondSize(last'.v))
       => /\ NoneBeyond(heap', vec'[last'.v])
          /\ AllBelow(heap', vec'[last'.v])
          /\ last'.rawDtor = 0
          /\ last'.ctorOver = 0]_vars

\* C7: a successful Insert/Emplace of x at index p, on either path, keeps the
\* elements [0, p), puts x at p and the old elements [p, size) after it, adds
\* one to size, and returns the iterator to index p of the current block.
C7_InsertPlacesValue ==
    [][(IsInsert(last') /\ last'.res = "ok")
       => LET v == last'.v
          IN  /\ Elems(heap', vec'[v]) = InsertAt(Contents(v), last'.idx, last'.val)
              /\ vec'[v].size = vec[v].size + 1
              /\ last'.ret = <<vec'[v].data.buffer, last'.idx>>]_vars

\* C7's case: an in-place Insert with elements on both sides of the gap.
C7_Witness ==
    /\ last.op = "Emplace"
    /\ last.res = "ok"
    /\ last.path = "inplace"
    /\ last.idx = 1
    /\ vec[1].size = 4
    /\ MovedFrom \notin {Contents(1)[k] : k \in 1..4}

C9_PushedInOrder ==
    \A v \in VecIds :
        pushed[v].valid =>
            /\ vec[v].alive
            /\ vec[v].size = Len(pushed[v].seq)
            /\ Contents(v) = pushed[v].seq

\* C9's case: three pushes, the elements having been relocated twice.
C9_Witness ==
    /\ pushed[1].valid
    /\ Len(pushed[1].seq) = 3
    /\ pushed[1].seq[1] # pushed[1].seq[2]
    /\ vec[1].data.capacity = 4

\* The least power of two that is at least k (0 for k = 0).
RECURSIVE PowerOfTwoFrom(_, _)
PowerOfTwoFrom(c, k) == IF c >= k THEN c ELSE PowerOfTwoFrom(2 * c, k)
LeastPowerOfTwo(k) == IF k = 0 THEN 0 ELSE PowerOfTwoFrom(1, k)

\* C10: Insert/Emplace/PushBack allocates if and only if size = capacity
\* before the call, and the new capacity is then max(1, 2 * size); pushes on
\* an empty vector give the capacities 1, 2, 4, ...; capacity >= size.
C10_GrowthDoubles ==
    /\ [](\A v \in VecIds :
            /\ vec[v].size <= vec[v].data.capacity
            /\ pushed[v].valid => vec[v].data.capacity = LeastPowerOfTwo(vec[v].size))
    /\ [][IsInsert(last')
          => LET v == last'.v
                 full == vec[v].size = vec[v].data.capacity
             IN  /\ last'.allocs > 0 => full
                 /\ (last'.res = "ok" /\ full)
                       => /\ last'.allocs = 1
                          /\ vec'[v].data.capacity = Max(1, 2 * vec[v].size)
                          /\ vec'[v].data.buffer # vec[v].data.buffer
                 /\ ~full => vec'[v].data = vec[v].data]_vars

\* C10's case: the push that takes the capacity from 2 to 4.
C10_Witness ==
    /\ last.op = "PushBack"
    /\ last.res = "ok"
    /\ last.path = "relocate"
    /\ pushed[1].valid
    /\ vec[1].size = 3
    /\ vec[1].data.capacity = 4

\* C11: after Reserve(c), PushBack, Insert, Emplace, PopBack and Erase calls
\* during which the size never exceeds c cause no reallocation: the vector
\* keeps the block and the capacity Reserve left, and the capacity is at
\* least c.
C11_NoReallocationWithinReserve ==
    \A v \in VecIds :
        reserved[v].valid =>
            /\ vec[v].data = reserved[v].data
            /\ vec[v].data.capacity >= reserved[v].c

\* C11's case: Reserve(3) on a vector, then calls that end with the push of
\* the third element into the block Reserve left.
C11_Witness ==
    /\ reserved[1].valid
    /\ reserved[1].c = 3
    /\ last.op = "PushBack"
    /\ last.res = "ok"
    /\ vec[1].size = 3

\* The vector u and its elements are as they were before the step.
Untouched(u) ==
    /\ vec'[u] = vec[u]
    /\ Elems(heap', vec'[u]) = Contents(u)

\* C12: a successful copy construction or copy assignment (either branch)
\* of B from A leaves B with A's size and elements in a block that is not
\* A's, and A unchanged; and no call on B other than a move from A or a swap
\* with A changes A's size or elements.
C12_CopyIsIndependent ==
    [][/\ (last'.op \in {"VectorCopy", "CopyAssign"} /\ last'.res = "ok" /\ last'.v # last'.w)
          => LET B == last'.v
                 A == last'.w
             IN  /\ vec'[B].size = vec[A].size
                 /\ Elems(heap', vec'[B]) = Contents(A)
                 /\ vec'[B].data.buffer # nullptr => vec'[B].data.buffer # vec'[A].data.buffer
                 /\ Untouched(A)
       /\ \A A \in VecIds :
             (/\ A # last'.v
              /\ vec[A].alive
              /\ ~(last'.op \in {"VectorMove", "MoveAssign", "Swap"} /\ last'.w = A))
             => Untouched(A)]_vars

\* C12's case: a copy assignment on the overlap branch that left two elements,
\* not all of them T().
C12_Witness ==
    /\ last.op = "CopyAssign"
    /\ last.res = "ok"
    /\ last.path = "inplace"
    /\ last.v # last.w
    /\ vec[last.v].size = 2
    /\ last.dtors = 0
    /\ Contents(last.v) = Contents(last.w)
    /\ \E k \in 1..2 : Contents(last.v)[k] # DefaultVal

\* C13: moving A into B, by construction or by assignment with A distinct
\* from B, leaves B with A's block, capacity, size and elements, leaves A
\* with size 0, capacity 0 and no block, and constructs, assigns and
\* destroys no element: A's block holds what it held.
C13_MoveStealsBlock ==
    [][(last'.op \in {"VectorMove", "MoveAssign"} /\ last'.v # last'.w)
       => LET B == last'.v
              A == last'.w
          IN  /\ vec'[B] = [alive |-> TRUE, data |-> vec[A].data, size |-> vec[A].size]
              /\ vec'[A] = [alive |-> TRUE, data |-> NoMemory, size |-> 0]
              /\ Elems(heap', vec'[B]) = Contents(A)
              /\ vec[A].data.buffer # nullptr
                    => heap'[vec[A].data.buffer] = heap[vec[A].data.buffer]
              /\ last'.res = "ok"
              /\ last'.dtors = 0
              /\ last'.rawDtor = 0
              /\ last'.ctorOver = 0
              /\ last'.rawUse = 0
              /\ last'.allocs = 0]_vars

\* C13's case: a move assignment that gave B the two elements of A.
C13_Witness ==
    /\ last.op = "MoveAssign"
    /\ last.v # last.w
    /\ vec[last.v].size = 2
    /\ vec[last.w].size = 0
    /\ Contents(last.v)[1] # Contents(last.v)[2]

\* C14: when the construction of element k fails in Vector(n) or in the copy
\* constructor, the elements [0, k) are destroyed exactly once each, the
\* block is released, the exception leaves the constructor and no Vector
\* exists whose destructor could run over the slots: no destructor runs on a
\* raw slot and no constructed object is freed.
C14_FailedConstructionRollsBack ==
    [][(/\ last'.op \in {"VectorSized", "VectorCopy"}
        /\ last'.res = "threw"
        /\ last'.stage \in {"construct", "copy"})
       => /\ ~vec'[last'.v].alive
          /\ heap' = heap
          /\ \A u \in VecIds \ {last'.v} : vec'[u] = vec[u]
          /\ last'.allocs = 1
          /\ last'.dtors < (IF last'.op = "VectorSized" THEN last'.idx ELSE vec[last'.w].size)
          /\ last'.freedCtor = 0
          /\ last'.rawDtor = 0
          /\ last'.badFree = 0
          /\ last'.ctorOver = 0]_vars

\* C14's case: the copy of the second element failed after the first was
\* copied.
C14_Witness ==
    /\ last.op = "VectorCopy"
    /\ last.res = "threw"
    /\ last.stage = "copy"
    /\ last.dtors = 1
    /\ vec[last.w].size = 2

\* C15: copy assignment with rhs.size > the capacity of the target is strongly
\* exception safe.  When the allocation or a copy of the temporary fails, the
\* target keeps its block, capacity, size and elements, rhs is unchanged and
\* the copies made are destroyed exactly once; when it succeeds, the target
\* has rhs's elements, its capacity is rhs.size, and its old elements are
\* destroyed exactly once, before the old block is freed.
C15_ReallocatingCopyAssignStrong ==
    [][(last'.op = "CopyAssign" /\ last'.path = "relocate" /\ last'.v # last'.w)
       => /\ Untouched(last'.w)
          /\ last'.freedCtor = 0
          /\ last'.rawDtor = 0
          /\ last'.badFree = 0
          /\ last'.res = "threw"
                => /\ vec' = vec
                   /\ heap' = heap
                   /\ last'.dtors < vec[last'.w].size
          /\ last'.res = "ok"
                => /\ vec'[last'.v].data.capacity = vec[last'.w].size
                   /\ vec'[last'.v].size = vec[last'.w].size
                   /\ Elems(heap', vec'[last'.v]) = Contents(last'.w)
                   /\ last'.dtors = vec[last'.v].size
                   /\ last'.allocs = 1]_vars

\* C15's case: the target holds an element, rhs holds two, and the copy of
\* the second fails.
C15_Witness ==
    /\ last.op = "CopyAssign"
    /\ last.path = "relocate"
    /\ last.res = "threw"
    /\ last.stage = "copy"
    /\ last.dtors = 1
    /\ vec[last.v].size = 1
    /\ vec[last.w].size = 2

\* C16: in every reachable state, after failing calls too, 0 <= size <=
\* capacity, the block is null if and only if the capacity is 0, and a block
\* has exactly capacity slots.
C16_SizeWithinCapacity ==
    \A v \in VecIds :
        /\ 0 <= vec[v].size
        /\ vec[v].size <= vec[v].data.capacity
        /\ vec[v].data.buffer = nullptr <=> vec[v].data.capacity = 0
        /\ vec[v].data.buffer # nullptr
              => /\ heap[vec[v].data.buffer].alloc
                 /\ Len(heap[vec[v].data.buffer].slots) = vec[v].data.capacity

\* C16's case: a Resize that took a larger block and then failed to construct
\* a new element: the capacity grew, the size did not.
C16_Witness ==
    /\ last.op = "Resize"
    /\ last.res = "threw"
    /\ last.stage = "construct"
    /\ last.allocs = 1
    /\ vec[1].size = 1
    /\ vec[1].data.capacity = 2

\* C17: a successful Resize(n) leaves size = n and the first min(old size, n)
\* elements with their values; for n < old size it destroys exactly the
\* old size - n trailing elements and keeps the block and the capacity; for
\* n > old size the elements [old size, n) are T() and the capacity is
\* max(old capacity, n).
C17_ResizeSetsSize ==
    [][(last'.op = "Resize" /\ last'.res = "ok")
       => LET v == last'.v
              n == last'.idx
              old == vec[v].size
              after == Elems(heap', vec'[v])
          IN  /\ vec'[v].size = n
              /\ \A k \in 1..Min(old, n) : after[k] = Contents(v)[k]
              /\ n < old
                    => /\ last'.dtors = old - n
                       /\ last'.rawDtor = 0
                       /\ last'.allocs = 0
                       /\ vec'[v].data = vec[v].data
                       /\ \A k \in (n + 1)..old : heap'[vec[v].data.buffer].slots[k] = Raw
              /\ n > old
                    => /\ \A k \in (old + 1)..n : after[k] = DefaultVal
                       /\ vec'[v].data.capacity = Max(vec[v].data.capacity, n)
              /\ n = old => (vec' = vec /\ heap' = heap)]_vars

\* C17's case: a Resize that grew a vector of one element, not T(), into a
\* larger block.
C17_Witness ==
    /\ last.op = "Resize"
    /\ last.res = "ok"
    /\ last.idx = 3
    /\ last.allocs = 1
    /\ last.dtors = 1
    /\ vec[1].size = 3
    /\ Contents(1)[1] # DefaultVal

\* The blocks the vectors hold.
Owned == {vec[v].data.buffer : v \in VecIds} \ {nullptr}

\* C18: no two vectors hold the same block, no block is freed twice, and
\* between calls every allocated block is held by a vector, so none stays
\* allocated once the vectors are destroyed; this after failed calls too.
C18_BlocksOwnedByOne ==
    /\ \A v \in VecIds : \A w \in VecIds \ {v} :
          vec[v].data.buffer # nullptr => vec[v].data.buffer # vec[w].data.buffer
    /\ {b \in Blocks : heap[b].alloc} = Owned
    /\ \A v \in VecIds : ~vec[v].alive => vec[v].data.buffer = nullptr
    /\ last.badFree = 0

\* C18's case: a copy assignment that took a block for the temporary copy
\* and failed, while both vectors hold a block.
C18_Witness ==
    /\ last.op = "CopyAssign"
    /\ last.res = "threw"
    /\ last.stage = "copy"
    /\ last.allocs = 1
    /\ Cardinality(Owned) = 2

\* C19: every call allocates at most one block, and the calls that need no
\* more capacity allocate none: Reserve(n) with n <= capacity, the in-place
\* Emplace and PushBack, the overlap branch of copy assignment, PopBack,
\* Erase and a Resize that does not exceed the capacity.
C19_AtMostOneAllocation ==
    [][LET v == last'.v
       IN  /\ last'.allocs <= 1
           /\ (\/ last'.op \in {"PopBack", "Erase"}
               \/ last'.op \in {"Reserve", "Resize"} /\ last'.idx <= vec[v].data.capacity
               \/ last'.op \in {"Emplace", "PushBack", "CopyAssign"} /\ last'.path = "inplace")
              => (last'.allocs = 0 /\ vec'[v].data = vec[v].data)]_vars

\* C19's case: a Resize that had to take a larger block took one.
C19_Witness ==
    /\ last.op = "Resize"
    /\ last.res = "ok"
    /\ last.allocs = 1
    /\ last.dtors = 1
    /\ vec[1].size = 2

\* C20: when Insert, PushBack or Emplace is called with element j of the same
\* vector as its argument (v[j] or std::move(v[j])) and returns, the vector
\* is one element longer and the element at the insertion index holds the
\* value element j had before the call, on the relocating path and on the
\* in-place path alike.
C20_InsertedEqualsOldElement ==
    [][(last'.op \in {"InsertElement", "InsertMovedElement"} /\ last'.res = "ok") =>
          LET v == last'.v
          IN  /\ vec'[v].size = vec[v].size + 1
              /\ Elems(heap', vec'[v])[last'.idx + 1] = Contents(v)[last'.val + 1]]_vars

\* An in-place Insert(begin(), v[1]) into <<0, 1, 0>> returned: element 1 was
\* shifted to make room, and the vector is <<1, 0, 1, 0>>.
C20_Witness ==
    /\ last.op = "InsertElement"
    /\ last.res = "ok"
    /\ last.path = "inplace"
    /\ last.idx = 0
    /\ last.val = 1
    /\ last.pre = <<0, 1, 0>>
    /\ Contents(1) = <<1, 0, 1, 0>>

====
